---- MODULE Spec2Model ----
(***************************************************************************)
(* Model of the akashic ingestion pipeline: the job record (documents     *)
(* table), the pipeline orchestrator (IngestionPipeline), and the three    *)
(* drivers that create records and run the pipeline (the HTTP controllers  *)
(* with the background worker, and the CLI task).                          *)
(*                                                                         *)
(* Modelling assumptions:                                                  *)
(*  - the documents table is reliable: find_by_id finds the row the driver *)
(*    inserted and update succeeds;                                        *)
(*  - each await point of process_file / process_text is one step;         *)
(*  - an anyhow error is the chain of its context strings, outermost       *)
(*    first; to_string() shows the outermost one only.                     *)
(***************************************************************************)
EXTENDS Integers, Sequences, FiniteSets, TLC

\* ------------------------------------------------------------------ bounds
\* Number of job records the drivers may create.
MaxJobs == 1

\* Number of further pipeline operations a caller may apply to a record
\* after its driver run (SpecApi only).
MaxApiCalls == 1

\* Length of what precedes the extension in a path given to get_extractor.
MaxStemLen == 2

\* Length of a text given to ChromaDbStore::ingest.
MaxTextLen == 7

\* The number of characters FalkorDbStore::ingest keeps of the text; it
\* stands for the 1000 of the code.
FalkorTextLimit == 3

\* Number of jobs that run at the same time in SpecConcurrent.
MaxConcurrentJobs == 2

Jobs == 1..MaxJobs

\* The ids of the jobs of SpecConcurrent.
ConcurrentJobs == 1..MaxConcurrentJobs

\* The ids any specification may give to a record.
Slots == Jobs \cup ConcurrentJobs

\* ------------------------------------------------------------------ enums
\* IngestionTarget and GraphDbType values (src/ingestion/mod.rs).
Vector == "IngestionTarget::Vector"
Graph == "IngestionTarget::Graph"
Both == "IngestionTarget::Both"
IngestionTarget == {Vector, Graph, Both}

Neo4j == "GraphDbType::Neo4j"
Falkordb == "GraphDbType::Falkordb"
Graphiti == "GraphDbType::Graphiti"
GraphDbType == {Neo4j, Falkordb, Graphiti}

\* Option<T> is a sequence of length at most one.
None == <<>>
Some(x) == <<x>>
IsSome(o) == Len(o) = 1
Unwrap(o) == o[1]
Option(S) == {None} \cup {Some(x) : x \in S}

\* #[derive(Debug)]: format!("{:?}", v) prints the variant name.
DebugTarget(t) ==
    CASE t = Vector -> "Vector"
      [] t = Graph -> "Graph"
      [] t = Both -> "Both"

DebugGraphDb(g) ==
    CASE g = Neo4j -> "Neo4j"
      [] g = Falkordb -> "Falkordb"
      [] g = Graphiti -> "Graphiti"

\* #[serde(rename_all = "lowercase")]: serde_json::from_str(&format!("\"{}\"", s))
\* accepts exactly the lower-cased variant names; None stands for Err.
ParseTarget(s) ==
    CASE s = "vector" -> Some(Vector)
      [] s = "graph" -> Some(Graph)
      [] s = "both" -> Some(Both)
      [] OTHER -> None

ParseGraphDb(s) ==
    CASE s = "neo4j" -> Some(Neo4j)
      [] s = "falkordb" -> Some(Falkordb)
      [] s = "graphiti" -> Some(Graphiti)
      [] OTHER -> None

\* .unwrap_or(IngestionTarget::Both)
TargetOrBoth(o) == IF IsSome(o) THEN Unwrap(o) ELSE Both

\* Strings a client may send in a "target" / "graph_db" form field or
\* command-line argument.
TargetStrings == {"vector", "graph", "both", "Vector"}
GraphDbStrings == {"neo4j", "falkordb", "graphiti", "Neo4j"}

\* File extensions of the paths a client may submit.
Extensions == {"pdf", "txt", "xyz"}

\* Metadata payloads of a text request.
Metadatas == {"{\"k\":1}"}

\* ----------------------------------------------------------------- errors
\* anyhow::Result<()>: Ok(()) or an error chain, outermost context first.
OkResult == [ok |-> TRUE, err |-> <<>>]
Err(chain) == [ok |-> FALSE, err |-> chain]

\* e.to_string() on an anyhow::Error displays the outermost context only.
ErrToString(chain) == chain[1]

\* .context(msg) on an Err wraps the chain; on Ok it is the identity.
Context(res, msg) == IF res.ok THEN res ELSE Err(<<msg>> \o res.err)

ErrNoExtractor == <<"No extractor found for this file type">>
ErrNeither == <<"Neither file_path nor text provided">>

\* ------------------------------------------------------------- extractors
\* Seeded fault: a path no extractor supports is read as plain text.
GetExtractor_DefaultsToText(ext) ==
    CASE ext = "pdf" -> Some("PdfExtractor")
      [] ext \in {"md", "markdown"} -> Some("MarkdownExtractor")
      [] ext = "epub" -> Some("EpubExtractor")
      [] ext \in {"doc", "docx"} -> Some("DocExtractor")
      [] OTHER -> Some("TextExtractor")

\* get_extractor: the first extractor whose supports() matches.  Paths are
\* represented by their lower-cased extension.
GetExtractor(ext) ==
    CASE ext = "pdf" -> Some("PdfExtractor")
      [] ext \in {"md", "markdown"} -> Some("MarkdownExtractor")
      [] ext = "txt" -> Some("TextExtractor")
      [] ext = "epub" -> Some("EpubExtractor")
      [] ext \in {"doc", "docx"} -> Some("DocExtractor")
      [] OTHER -> None

\* ------------------------------------------------------ paths as strings
\* A Rust string is the sequence of its characters.
Lower == <<"a", "b", "c", "d", "e", "f", "g", "h", "i", "j", "k", "l", "m",
           "n", "o", "p", "q", "r", "s", "t", "u", "v", "w", "x", "y", "z">>
Upper == <<"A", "B", "C", "D", "E", "F", "G", "H", "I", "J", "K", "L", "M",
           "N", "O", "P", "Q", "R", "S", "T", "U", "V", "W", "X", "Y", "Z">>

\* char::to_lowercase / to_uppercase on the characters of the model.
ToLowerChar(c) ==
    IF \E i \in DOMAIN Upper : Upper[i] = c
    THEN Lower[CHOOSE i \in DOMAIN Upper : Upper[i] = c]
    ELSE c

ToUpperChar(c) ==
    IF \E i \in DOMAIN Lower : Lower[i] = c
    THEN Upper[CHOOSE i \in DOMAIN Lower : Lower[i] = c]
    ELSE c

\* str::to_lowercase
ToLowercase(str) == [i \in DOMAIN str |-> ToLowerChar(str[i])]

\* str::ends_with
EndsWith(str, suffix) ==
    /\ Len(str) >= Len(suffix)
    /\ SubSeq(str, Len(str) - Len(suffix) + 1, Len(str)) = suffix

\* Seeded fault: supports() compares the path as written.
Supports_CaseSensitive(extractor, file_path) ==
    CASE extractor = "PdfExtractor" -> EndsWith(file_path, <<".", "p", "d", "f">>)
      [] extractor = "MarkdownExtractor" ->
            \/ EndsWith(file_path, <<".", "m", "d">>)
            \/ EndsWith(file_path, <<".", "m", "a", "r", "k", "d", "o", "w", "n">>)
      [] extractor = "TextExtractor" -> EndsWith(file_path, <<".", "t", "x", "t">>)
      [] extractor = "EpubExtractor" -> EndsWith(file_path, <<".", "e", "p", "u", "b">>)
      [] extractor = "DocExtractor" ->
            \/ EndsWith(file_path, <<".", "d", "o", "c">>)
            \/ EndsWith(file_path, <<".", "d", "o", "c", "x">>)

\* Extractor::supports for each variant.
Supports(extractor, file_path) ==
    LET lower == ToLowercase(file_path)
    IN CASE extractor = "PdfExtractor" -> EndsWith(lower, <<".", "p", "d", "f">>)
         [] extractor = "MarkdownExtractor" ->
               \/ EndsWith(lower, <<".", "m", "d">>)
               \/ EndsWith(lower, <<".", "m", "a", "r", "k", "d", "o", "w", "n">>)
         [] extractor = "TextExtractor" -> EndsWith(lower, <<".", "t", "x", "t">>)
         [] extractor = "EpubExtractor" -> EndsWith(lower, <<".", "e", "p", "u", "b">>)
         [] extractor = "DocExtractor" ->
               \/ EndsWith(lower, <<".", "d", "o", "c">>)
               \/ EndsWith(lower, <<".", "d", "o", "c", "x">>)

\* The vec! of get_extractor, in its order.
Extractors ==
    <<"PdfExtractor", "MarkdownExtractor", "TextExtractor", "EpubExtractor",
      "DocExtractor">>

\* get_extractor on a path: extractors.into_iter().find(|e| e.supports(path)).
GetExtractorOf(file_path) ==
    LET hits == {i \in DOMAIN Extractors : Supports(Extractors[i], file_path)}
    IN IF hits = {} THEN None
       ELSE Some(Extractors[CHOOSE i \in hits : \A k \in hits : i <= k])

\* Every way of writing a word in upper and lower case letters.
RECURSIVE CaseVariants(_)
CaseVariants(word) ==
    IF word = <<>> THEN {<<>>}
    ELSE {<<c>> \o rest : c \in {ToLowerChar(Head(word)), ToUpperChar(Head(word))},
                          rest \in CaseVariants(Tail(word))}

\* The words after the last dot of the submitted paths: the supported
\* extensions in every letter case, and words that are none of them.
ExtensionWords ==
    UNION {CaseVariants(w) :
             w \in {<<"p", "d", "f">>, <<"m", "d">>,
                    <<"m", "a", "r", "k", "d", "o", "w", "n">>, <<"t", "x", "t">>,
                    <<"e", "p", "u", "b">>, <<"d", "o", "c">>, <<"d", "o", "c", "x">>,
                    <<"x", "y", "z">>, <<"p", "d">>, <<"p", "d", "f", "x">>,
                    <<"m", "d", "x">>, <<"d", "o", "c", "x", "x">>, <<>>}}

\* Sequences over S of length at most n.
RECURSIVE SeqUpTo(_, _)
SeqUpTo(S, n) ==
    IF n = 0 THEN {<<>>}
    ELSE SeqUpTo(S, n - 1) \cup
         {Append(q, c) : q \in {r \in SeqUpTo(S, n - 1) : Len(r) = n - 1}, c \in S}

\* What precedes the extension: directories and a file stem.
Stems == SeqUpTo({"a", ".", "/"}, MaxStemLen)

\* The paths submitted to get_extractor: a stem, then a word with or
\* without a dot before it.
Paths ==
    {stem \o dot \o word :
        stem \in Stems, dot \in {<<>>, <<".">>}, word \in ExtensionWords}

\* --------------------------------------------------------------- extraction
\* What the tesseract child process can do: it cannot be spawned, exits
\* non-zero, prints bytes that are not UTF-8, or prints text.
TesseractOutcomes == {"spawn_failed", "exit_nonzero", "invalid_utf8", "ok"}

\* ocr_fallback: run tesseract once and turn its outcome into a Result.
OcrFallback(t) ==
    CASE t = "spawn_failed" ->
            Err(<<"Failed to run tesseract. Make sure it's installed.", "io error">>)
      [] t = "exit_nonzero" -> Err(<<"Tesseract failed: stderr">>)
      [] t = "invalid_utf8" -> Err(<<"Invalid UTF-8 from tesseract", "utf8 error">>)
      [] t = "ok" -> OkResult

OcrOutcomes == {OcrFallback(t) : t \in TesseractOutcomes}

\* What the extractor's own reading of the file can do (pdf_extract,
\* read_to_string, EpubDoc::new); DocExtractor has none.
PrimaryOutcomes(extractor) ==
    CASE extractor \in {"PdfExtractor", "MarkdownExtractor", "TextExtractor"} ->
            {"ok", "err"}
      [] extractor = "EpubExtractor" -> {"ok", "open_err", "chapter_err"}
      [] extractor = "DocExtractor" -> {"none"}

\* The result of an extraction: the Result, the text of Ok, and how many
\* times ocr_fallback ran.
Extracted(res, text, ocr_runs) == [res |-> res, text |-> text, ocr_runs |-> ocr_runs]

\* The result of ocr_fallback under tesseract outcome t.
ViaOcr(t) ==
    Extracted(OcrFallback(t),
              IF OcrFallback(t).ok THEN Some("tesseract stdout") ELSE None, 1)

\* Seeded fault: PdfExtractor runs the OCR fallback whatever the primary
\* extraction returned.
Extract_PdfAlwaysOcr(extractor, primary, t) ==
    CASE extractor = "PdfExtractor" ->
            IF primary = "ok"
            THEN Extracted(OkResult, Some("pdf_extract text"), 1)
            ELSE ViaOcr(t)
      [] extractor = "MarkdownExtractor" ->
            IF primary = "ok"
            THEN Extracted(OkResult, Some("file content"), 0)
            ELSE Extracted(Err(<<"Failed to read markdown file", "io error">>), None, 0)
      [] extractor = "TextExtractor" ->
            IF primary = "ok"
            THEN Extracted(OkResult, Some("file content"), 0)
            ELSE Extracted(Err(<<"Failed to read text file", "io error">>), None, 0)
      [] extractor = "EpubExtractor" ->
            IF primary = "ok"
            THEN Extracted(OkResult, Some("chapters"), 0)
            ELSE IF primary = "open_err"
            THEN Extracted(Err(<<"Failed to open EPUB file", "epub error">>), None, 0)
            ELSE Extracted(Err(<<"epub error">>), None, 0)
      [] extractor = "DocExtractor" -> ViaOcr(t)

\* Extractor::extract for each variant, given what its own reading and
\* tesseract do.  PdfExtractor falls back to OCR when pdf_extract fails;
\* DocExtractor always uses OCR.
Extract(extractor, primary, t) ==
    CASE extractor = "PdfExtractor" ->
            IF primary = "ok"
            THEN Extracted(OkResult, Some("pdf_extract text"), 0)
            ELSE ViaOcr(t)
      [] extractor = "MarkdownExtractor" ->
            IF primary = "ok"
            THEN Extracted(OkResult, Some("file content"), 0)
            ELSE Extracted(Err(<<"Failed to read markdown file", "io error">>), None, 0)
      [] extractor = "TextExtractor" ->
            IF primary = "ok"
            THEN Extracted(OkResult, Some("file content"), 0)
            ELSE Extracted(Err(<<"Failed to read text file", "io error">>), None, 0)
      [] extractor = "EpubExtractor" ->
            IF primary = "ok"
            THEN Extracted(OkResult, Some("chapters"), 0)
            ELSE IF primary = "open_err"
            THEN Extracted(Err(<<"Failed to open EPUB file", "epub error">>), None, 0)
            ELSE Extracted(Err(<<"epub error">>), None, 0)
      [] extractor = "DocExtractor" -> ViaOcr(t)

\* Extractor::extract for each variant: the results it can return.
ExtractOutcomes(extractor) ==
    {Extract(extractor, primary, t).res :
        primary \in PrimaryOutcomes(extractor), t \in TesseractOutcomes}

\* ----------------------------------------------------------------- stores
\* What the POST /api/v1/collections of ChromaDbStore::new comes to: the
\* collection is created, it exists already, another error response, or
\* no response at all (send() is Err).
CollectionOutcomes == {"created", "exists", "error", "no response"}

\* Seeded fault: ChromaDbStore::new returns the failure of its request.
ChromaDbStoreNew_Propagates(response) ==
    IF response \in {"created", "exists"}
    THEN OkResult
    ELSE Err(<<"Failed to create collection">>)

\* ChromaDbStore::new: `let _response = ... .send().await;` binds the
\* outcome and nothing reads it; the function ends with Ok(Self {..}).
ChromaDbStoreNew(response) == OkResult

\* ChromaDbStore::ingest: the request cannot be sent, the response is not a
\* success, or Ok.
VectorIngestOutcomes ==
    { OkResult,
      Err(<<"Failed to send request to ChromaDB", "reqwest error">>),
      Err(<<"ChromaDB request failed: ">>) }

\* GraphStore::ingest of the backend the pipeline holds.
GraphIngestOutcomes(kind) ==
    CASE kind = Neo4j ->
            {OkResult, Err(<<"Failed to insert into Neo4j", "neo4rs error">>)}
      [] kind = Falkordb ->
            {OkResult, Err(<<"Failed to get Redis connection", "redis error">>),
             Err(<<"Failed to execute FalkorDB query", "redis error">>)}
      [] kind = Graphiti ->
            {OkResult, Err(<<"Failed to call Graphiti via PyO3", "python error">>)}

\* create_graph_store: Ok, or the error of the selected backend's
\* constructor (Graphiti: Ok with the graphiti feature, Err without it).
\* The drivers always supply the configuration keys the backend requires.
CreateGraphStoreOutcomes(kind) ==
    CASE kind = Neo4j ->
            {OkResult, Err(<<"Failed to connect to Neo4j", "neo4rs error">>)}
      [] kind = Falkordb ->
            {OkResult, Err(<<"Failed to create FalkorDB/Redis client", "redis error">>)}
      [] kind = Graphiti ->
            {OkResult,
             Err(<<"Graphiti support not enabled. Rebuild with --features graphiti">>)}

\* ------------------------------------------------------ create_graph_store
\* The configuration is a JSON object: each key is absent, or holds a
\* string or a value of another type.  config[key].as_str() is Some only
\* for a string.
ConfigKeys == {"uri", "user", "password", "graph_name", "script_path"}
JsonString(v) == [kind |-> "string", v |-> v]
JsonNumber == [kind |-> "number", v |-> "5"]
JsonAbsent == [kind |-> "absent", v |-> ""]
Configs ==
    [ConfigKeys -> {JsonAbsent, JsonNumber}]
       \cup {[k \in ConfigKeys |-> IF k \in present THEN JsonString(k) ELSE JsonAbsent] :
               present \in SUBSET ConfigKeys}
       \cup {[k \in ConfigKeys |-> IF k = other THEN JsonNumber ELSE JsonString(k)] :
               other \in ConfigKeys}

AsStr(value) == IF value.kind = "string" THEN Some(value.v) ELSE None

\* .unwrap_or(default)
UnwrapOr(o, default) == IF IsSome(o) THEN Unwrap(o) ELSE default

\* What create_graph_store returns: the Result, the store of Ok, and the
\* constructor call it made, if any.
Created(res, store, invoked) == [res |-> res, store |-> store, invoked |-> invoked]

\* A constructor call: returns the store, or its error when the backend
\* cannot be set up (connect is FALSE).
Construct(store, connect, error) ==
    IF connect THEN Created(OkResult, Some(store), Some(store))
    ELSE Created(Err(error), None, Some(store))

\* Seeded fault: the Neo4j arm does not require the password.
CreateGraphStore_NoPassword(db_type, config, feature, connect) ==
    CASE db_type = Neo4j ->
            LET uri == AsStr(config["uri"])
                user == AsStr(config["user"])
                password == AsStr(config["password"])
            IN IF ~IsSome(uri) THEN Created(Err(<<"Missing neo4j uri">>), None, None)
               ELSE IF ~IsSome(user)
               THEN Created(Err(<<"Missing neo4j user">>), None, None)
               ELSE Construct([kind |-> Neo4j, uri |-> Unwrap(uri), user |-> Unwrap(user),
                               password |-> UnwrapOr(password, "")],
                              connect, <<"Failed to connect to Neo4j", "neo4rs error">>)
      [] db_type = Falkordb ->
            LET uri == AsStr(config["uri"])
                graph_name == UnwrapOr(AsStr(config["graph_name"]), "akashic")
            IN IF ~IsSome(uri) THEN Created(Err(<<"Missing falkordb uri">>), None, None)
               ELSE Construct([kind |-> Falkordb, url |-> Unwrap(uri),
                               graph_name |-> graph_name],
                              connect,
                              <<"Failed to create FalkorDB/Redis client", "redis error">>)
      [] db_type = Graphiti ->
            IF feature
            THEN Construct([kind |-> Graphiti,
                            python_script_path |->
                               UnwrapOr(AsStr(config["script_path"]), "graphiti_ingest.py")],
                           TRUE, <<>>)
            ELSE Created(
                    Err(<<"Graphiti support not enabled. Rebuild with --features graphiti">>),
                    None, None)

\* create_graph_store(db_type, config): feature says whether the build has
\* the graphiti feature, connect whether the backend's constructor succeeds.
CreateGraphStore(db_type, config, feature, connect) ==
    CASE db_type = Neo4j ->
            LET uri == AsStr(config["uri"])
                user == AsStr(config["user"])
                password == AsStr(config["password"])
            IN IF ~IsSome(uri) THEN Created(Err(<<"Missing neo4j uri">>), None, None)
               ELSE IF ~IsSome(user)
               THEN Created(Err(<<"Missing neo4j user">>), None, None)
               ELSE IF ~IsSome(password)
               THEN Created(Err(<<"Missing neo4j password">>), None, None)
               ELSE Construct([kind |-> Neo4j, uri |-> Unwrap(uri), user |-> Unwrap(user),
                               password |-> Unwrap(password)],
                              connect, <<"Failed to connect to Neo4j", "neo4rs error">>)
      [] db_type = Falkordb ->
            LET uri == AsStr(config["uri"])
                graph_name == UnwrapOr(AsStr(config["graph_name"]), "akashic")
            IN IF ~IsSome(uri) THEN Created(Err(<<"Missing falkordb uri">>), None, None)
               ELSE Construct([kind |-> Falkordb, url |-> Unwrap(uri),
                               graph_name |-> graph_name],
                              connect,
                              <<"Failed to create FalkorDB/Redis client", "redis error">>)
      [] db_type = Graphiti ->
            IF feature
            THEN Construct([kind |-> Graphiti,
                            python_script_path |->
                               UnwrapOr(AsStr(config["script_path"]), "graphiti_ingest.py")],
                           TRUE, <<>>)
            ELSE Created(
                    Err(<<"Graphiti support not enabled. Rebuild with --features graphiti">>),
                    None, None)

\* ------------------------------------------------------ FalkorDB query
\* The characters of the values given to FalkorDbStore::ingest: a letter,
\* the single quote and the backslash.
QuoteChar == "'"
Backslash == "\\"
QueryAlphabet == {"a", QuoteChar, Backslash}

\* str.replace("'", "\\'"): every single quote gets a backslash before it.
RECURSIVE EscapeQuotes(_)
EscapeQuotes(str) ==
    IF str = <<>> THEN <<>>
    ELSE (IF Head(str) = QuoteChar THEN <<Backslash, QuoteChar>> ELSE <<Head(str)>>)
            \o EscapeQuotes(Tail(str))

\* .chars().take(n).collect::<String>()
Take(str, n) == SubSeq(str, 1, IF Len(str) < n THEN Len(str) ELSE n)

\* serde_json's to_string of a JSON string: in double quotes, every
\* backslash doubled; a single quote is written as it is.
RECURSIVE JsonEscape(_)
JsonEscape(str) ==
    IF str = <<>> THEN <<>>
    ELSE (IF Head(str) = Backslash THEN <<Backslash, Backslash>> ELSE <<Head(str)>>)
            \o JsonEscape(Tail(str))

\* metadata.unwrap_or(json!({})).to_string(); a metadata value is a JSON
\* string here.
MetadataToString(metadata) ==
    IF IsSome(metadata)
    THEN <<"\"">> \o JsonEscape(Unwrap(metadata)) \o <<"\"">>
    ELSE <<"{", "}">>

\* FalkorDbStore::ingest, up to the query it sends: the three values the
\* format! inlines between the single quotes of
\* CREATE (d:Document {id: '..', text: '..', metadata: '..', ..}).
\* The text is escaped first and the escaped text is cut, at 1000
\* characters in the code and at FalkorTextLimit here.
FalkorQueryValues(document_id, text, metadata) ==
    [id |-> EscapeQuotes(document_id),
     text |-> Take(EscapeQuotes(text), FalkorTextLimit),
     metadata |-> EscapeQuotes(MetadataToString(metadata))]

\* The values given to FalkorDbStore::ingest.
FalkorTexts == SeqUpTo(QueryAlphabet, FalkorTextLimit + 1)
FalkorIds == SeqUpTo(QueryAlphabet, 1)
FalkorMetadatas == Option(SeqUpTo(QueryAlphabet, 1))

\* ------------------------------------------------------ ChromaDB chunking
NL == "\n"

\* char::is_whitespace on the characters of the model.
Whitespace == {" ", NL}

\* s.trim().is_empty()
TrimIsEmpty(str) == \A i \in DOMAIN str : str[i] \in Whitespace

\* text.split("\n\n"): cut at each match found from the left, matches do
\* not overlap, and empty pieces are kept.
RECURSIVE SplitParagraphs(_)
SplitParagraphs(text) ==
    LET at == {i \in 1..(Len(text) - 1) : text[i] = NL /\ text[i + 1] = NL}
    IN IF at = {} THEN <<text>>
       ELSE LET i == CHOOSE k \in at : \A m \in at : k <= m
            IN <<SubSeq(text, 1, i - 1)>>
                  \o SplitParagraphs(SubSeq(text, i + 2, Len(text)))

NonBlank(piece) == ~TrimIsEmpty(piece)

\* format!("{}", idx)
Digits == <<"0", "1", "2", "3", "4", "5", "6", "7", "8", "9">>

RECURSIVE Decimal(_)
Decimal(n) ==
    IF n < 10 THEN <<Digits[n + 1]>>
    ELSE Decimal(n \div 10) \o <<Digits[(n % 10) + 1]>>

\* format!("{}_{}", document_id, idx)
ChunkId(document_id, idx) == document_id \o <<"_">> \o Decimal(idx)

\* metadata.clone().unwrap_or(json!({})) with chunk_index and document_id
\* inserted.
ChunkMetadata(metadata, document_id, idx) ==
    [given |-> metadata, chunk_index |-> idx, document_id |-> document_id]

\* Seeded fault: the chunks are numbered before the empty ones are dropped.
ChromaAddRequest_IndexBeforeFilter(document_id, text, metadata) ==
    LET pieces == SplitParagraphs(text)
        kept == {i \in DOMAIN pieces : NonBlank(pieces[i])}
        chunks == SelectSeq(pieces, NonBlank)
        nth(n) == CHOOSE i \in kept : Cardinality({k \in kept : k < i}) = n - 1
    IN [ids |-> [n \in DOMAIN chunks |-> ChunkId(document_id, nth(n) - 1)],
        documents |-> chunks,
        metadatas |-> [n \in DOMAIN chunks |->
                         ChunkMetadata(metadata, document_id, nth(n) - 1)]]

\* ChromaDbStore::ingest, up to the request it posts to /add: the chunks
\* are the pieces that are not blank, numbered from 0 after the filter.
ChromaAddRequest(document_id, text, metadata) ==
    LET chunks == SelectSeq(SplitParagraphs(text), NonBlank)
    IN [ids |-> [n \in DOMAIN chunks |-> ChunkId(document_id, n - 1)],
        documents |-> chunks,
        metadatas |-> [n \in DOMAIN chunks |->
                         ChunkMetadata(metadata, document_id, n - 1)]]

\* The texts and document ids given to ChromaDbStore::ingest.
Texts == SeqUpTo({"a", " ", NL}, MaxTextLen)
DocumentIds == {<<"d", "o", "c">>, <<"7">>}

\* ------------------------------------------------------------------ state
VARIABLES
    docs,       \* the documents table: a sequence of rows, id = position
    pc,         \* pc[j]: where the run that drives job j stands
    args,       \* args[j]: what the driver of job j passes on (IngestWorkerArgs)
    pipeline,   \* pipeline[j]: the IngestionPipeline constructed for job j
    call,       \* call[j]: the process_file / process_text invocation
    result,     \* result[j]: what the last pipeline operation returned
    log,        \* log[j]: events of the current operation on job j, in order
    api_calls,  \* api_calls[j]: operations applied to job j after its driver run
    input,      \* the argument of the function a function-level specification applies
    output      \* Some(its result) once applied, None before

\* The variables of the function-level specifications.
fn == <<input, output>>

\* The variables of the jobs.
job_vars == <<docs, pc, args, pipeline, call, result, log, api_calls>>

vars == <<docs, pc, args, pipeline, call, result, log, api_calls, input, output>>

\* Events of log[j]: k is the kind, s the status written or the store
\* called, p the progress written, e the error chain of a failure, d and m
\* the document_id and metadata arguments of a store call.
EvWrite(status, progress) ==
    [k |-> "write", s |-> status, p |-> progress, e |-> <<>>, d |-> 0, m |-> None]
EvSelect(res) ==
    [k |-> "select", s |-> "", p |-> 0, e |-> res.err, d |-> 0, m |-> None]
EvExtract(res) ==
    [k |-> "extract", s |-> "", p |-> 0, e |-> res.err, d |-> 0, m |-> None]
EvCall(store, document_id, metadata) ==
    [k |-> "call", s |-> store, p |-> 0, e |-> <<>>, d |-> document_id,
     m |-> metadata]
EvRet(store, res) ==
    [k |-> "ret", s |-> store, p |-> 0, e |-> res.err, d |-> 0, m |-> None]

NoArgs ==
    [driver |-> "none", file_path |-> None, text |-> None,
     target |-> "", graph_db |-> None]
\* The pipeline of a run: its stores and, while IngestionPipeline::new is
\* running, the answer ChromaDbStore::new got to its collection request
\* (the local _response, dropped when new returns).
NoPipeline ==
    [built |-> FALSE, vector_store |-> FALSE, graph_store |-> None,
     response |-> None]
\* What process_file keeps of its extraction: the outcome of the extractor's
\* own reading, of tesseract if it ran, the number of ocr_fallback runs and
\* the text.
NoExtraction == [primary |-> "", tesseract |-> None, ocr_runs |-> 0, text |-> None]

NoCall ==
    [op |-> "none", by |-> "none", file_path |-> "", target |-> Both,
     graph_db |-> None, extractor |-> None, extraction |-> NoExtraction]

\* No record exists and no driver runs.
NoJobs ==
    /\ docs = <<>>
    /\ pc = [j \in Slots |-> "new"]
    /\ args = [j \in Slots |-> NoArgs]
    /\ pipeline = [j \in Slots |-> NoPipeline]
    /\ call = [j \in Slots |-> NoCall]
    /\ result = [j \in Slots |-> OkResult]
    /\ log = [j \in Slots |-> <<>>]
    /\ api_calls = [j \in Slots |-> 0]

Init ==
    /\ NoJobs
    /\ input = None
    /\ output = None

\* ---------------------------------------------------------- job records
\* documents row (migration m20251128_075444_documents; every column is
\* nullable, status and progress are always written as Some).
NewDocument(filename, status, target, graph_db, metadata) ==
    [filename |-> Some(filename),
     status |-> status,
     ingestion_type |-> Some(DebugTarget(target)),
     graph_db |-> IF IsSome(graph_db) THEN Some(DebugGraphDb(Unwrap(graph_db))) ELSE None,
     progress |-> 0,
     metadata |-> metadata,
     error_message |-> None]

\* The id the next insert gets (PkAuto).
NextId == Len(docs) + 1

\* A "target" field or argument: parsed, Both when absent or unparsable.
FieldTarget(field) ==
    IF IsSome(field) THEN TargetOrBoth(ParseTarget(Unwrap(field))) ELSE Both

\* A "graph_db" field or argument: parsed with .ok(), None when absent.
FieldGraphDb(field) ==
    IF IsSome(field) THEN ParseGraphDb(Unwrap(field)) ELSE None

\* IngestWorkerArgs as the controllers build it: target and graph_db are
\* encoded with format!("{:?}", ..).
WorkerArgs(file_path, text, target, graph_db) ==
    [driver |-> "worker", file_path |-> file_path, text |-> text,
     target |-> DebugTarget(target),
     graph_db |-> IF IsSome(graph_db) THEN Some(DebugGraphDb(Unwrap(graph_db))) ELSE None]

\* ------------------------------------------------------------ controllers
\* POST /api/ingest/file: insert the record (queued, 0), enqueue the worker.
UploadFile ==
    /\ NextId \in Jobs
    /\ \E ext \in Extensions, tfield \in Option(TargetStrings),
          gfield \in Option(GraphDbStrings) :
          LET target == FieldTarget(tfield)
              graph_db == FieldGraphDb(gfield)
          IN /\ docs' = Append(docs, NewDocument(ext, "queued", target, graph_db, None))
             /\ args' = [args EXCEPT ![NextId] =
                           WorkerArgs(Some(ext), None, target, graph_db)]
             /\ pc' = [pc EXCEPT ![NextId] = "queued"]
    /\ UNCHANGED <<pipeline, call, result, log, api_calls, fn>>

\* POST /api/ingest/text: the JSON body is deserialized by serde, so target
\* and graph_db are enum values; the record keeps the metadata.
IngestText ==
    /\ NextId \in Jobs
    /\ \E target \in IngestionTarget, graph_db \in Option(GraphDbType),
          metadata \in Option(Metadatas) :
          /\ docs' = Append(docs,
                       NewDocument("text_input", "queued", target, graph_db, metadata))
          /\ args' = [args EXCEPT ![NextId] =
                        WorkerArgs(None, Some("text"), target, graph_db)]
          /\ pc' = [pc EXCEPT ![NextId] = "queued"]
    /\ UNCHANGED <<pipeline, call, result, log, api_calls, fn>>

\* ----------------------------------------------------------------- worker
\* Seeded fault: the worker marks the record processing by itself.
WorkerPerform_MarksProcessing(j) ==
    /\ pc[j] = "queued"
    /\ docs' = [docs EXCEPT ![j].status = "processing"]
    /\ LET target == ParseTarget(args[j].target)
           graph_db == FieldGraphDb(args[j].graph_db)
       IN IF IsSome(target)
          THEN /\ call' = [call EXCEPT ![j] =
                     [NoCall EXCEPT !.by = "driver", !.target = Unwrap(target),
                                    !.graph_db = graph_db]]
               /\ pc' = [pc EXCEPT ![j] = "construct"]
               /\ UNCHANGED result
          ELSE /\ result' = [result EXCEPT ![j] = Err(<<"unknown variant">>)]
               /\ pc' = [pc EXCEPT ![j] = "returned"]
               /\ UNCHANGED call
    /\ UNCHANGED <<args, pipeline, log, api_calls, fn>>

\* IngestWorker::perform up to pipeline construction: decode target (an
\* error returns BadRequest at once) and graph_db (.ok()).
WorkerPerform(j) ==
    /\ pc[j] = "queued"
    /\ LET target == ParseTarget(args[j].target)
           graph_db == FieldGraphDb(args[j].graph_db)
       IN IF IsSome(target)
          THEN /\ call' = [call EXCEPT ![j] =
                     [NoCall EXCEPT !.by = "driver", !.target = Unwrap(target),
                                    !.graph_db = graph_db]]
               /\ pc' = [pc EXCEPT ![j] = "construct"]
               /\ UNCHANGED result
          ELSE /\ result' = [result EXCEPT ![j] = Err(<<"unknown variant">>)]
               /\ pc' = [pc EXCEPT ![j] = "returned"]
               /\ UNCHANGED call
    /\ UNCHANGED <<docs, args, pipeline, log, api_calls, fn>>

\* ------------------------------------------------------------------- task
\* IngestTask::run up to the insert: parse the command line, create the
\* record with status "processing" and progress 0.  The command lines are
\* those with stdin, file, target and graph_db arguments in the given sets.
TaskRunWith(ids, stdins, files, targs, gargs) ==
    /\ NextId \in ids
    /\ \E stdin \in stdins, file \in files, targ \in targs, garg \in gargs :
          /\ stdin \/ IsSome(file)
          /\ LET target == FieldTarget(targ)
                 graph_db == FieldGraphDb(garg)
                 filename == IF stdin THEN "stdin" ELSE Unwrap(file)
             IN /\ docs' = Append(docs,
                            NewDocument(filename, "processing", target, graph_db, None))
                /\ args' = [args EXCEPT ![NextId] =
                             [driver |-> "task",
                              file_path |-> IF stdin THEN None ELSE file,
                              text |-> IF stdin THEN Some("text") ELSE None,
                              target |-> "", graph_db |-> None]]
                /\ call' = [call EXCEPT ![NextId] =
                             [NoCall EXCEPT !.by = "driver", !.target = target,
                                            !.graph_db = graph_db]]
                /\ pc' = [pc EXCEPT ![NextId] = "construct"]
    /\ UNCHANGED <<pipeline, result, log, api_calls, fn>>

\* Any command line.
TaskRun ==
    TaskRunWith(Jobs, BOOLEAN, Option(Extensions), Option(TargetStrings),
                Option(GraphDbStrings))

\* "ingest text:- graph_db:neo4j" or "ingest file:notes.txt graph_db:neo4j",
\* target Both, run at the same time as other such commands.
ConcurrentTaskRun ==
    TaskRunWith(ConcurrentJobs, BOOLEAN, {Some("txt")}, {None}, {Some("neo4j")})

\* --------------------------------------------------------------- pipeline
\* Seeded fault: a checkpoint also clears the error_message.
UpdateDocumentStatus_ClearsError(d, id, status, progress) ==
    [d EXCEPT ![id].status = status, ![id].progress = progress,
              ![id].error_message = None]

\* Seeded fault: the row is looked up without the id and the first one is
\* written.
UpdateDocumentStatus_FirstRow(d, id, status, progress) ==
    [d EXCEPT ![1].status = status, ![1].progress = progress]

\* update_document_status: find the row and set status and progress.
UpdateDocumentStatus(d, id, status, progress) ==
    [d EXCEPT ![id].status = status, ![id].progress = progress]

\* Seeded fault: handle_error also resets progress.
HandleError_ResetsProgress(d, id, error) ==
    [d EXCEPT ![id].status = "failed", ![id].error_message = Some(error),
              ![id].progress = 0]

\* Seeded fault: handle_error records the message but not the status.
HandleError_KeepsStatus(d, id, error) ==
    [d EXCEPT ![id].error_message = Some(error)]

\* handle_error: find the row and set status failed and error_message.
HandleError(d, id, error) ==
    [d EXCEPT ![id].status = "failed", ![id].error_message = Some(error)]

\* A checkpoint of process_file / process_text: the record is written and
\* the write joins the log of the operation.
Checkpoint(j, status, progress) ==
    /\ docs' = UpdateDocumentStatus(docs, j, status, progress)
    /\ log' = [log EXCEPT ![j] = Append(@, EvWrite(status, progress))]

\* The operation returns res to its caller.
Return(j, res) ==
    /\ result' = [result EXCEPT ![j] = res]
    /\ pc' = [pc EXCEPT ![j] = "op_ret"]

\* Where the match on target continues once the graph arm is over.
AfterGraph(j) == IF call[j].op = "file" THEN "pf_80" ELSE "done_100"

\* if let Some(ref store) = self.graph_store: call it, else go on.
GraphStage(j) ==
    IF IsSome(pipeline[j].graph_store) THEN "gr_call" ELSE AfterGraph(j)

\* Seeded fault: process_text follows the checkpoints of process_file.
AfterVector_AsInProcessFile(j) ==
    IF call[j].target = Both THEN "pf_60" ELSE "pf_80"

\* Where the match on target continues once the vector arm is over.
AfterVector(j) ==
    IF call[j].op = "file"
    THEN (IF call[j].target = Both THEN "pf_60" ELSE "pf_80")
    ELSE (IF call[j].target = Both THEN GraphStage(j) ELSE "done_100")

\* Seeded fault: the operation returns early when no vector store exists.
VectorStage_ReturnsEarly(j) == IF pipeline[j].vector_store THEN "vec_call" ELSE "op_ret"

\* if let Some(ref store) = self.vector_store: call it, else go on.
VectorStage(j) == IF pipeline[j].vector_store THEN "vec_call" ELSE AfterVector(j)

\* Seeded fault: the arms of Graph and Both are exchanged.
Dispatch_GraphFirst(j) ==
    IF call[j].target = Vector THEN VectorStage(j) ELSE GraphStage(j)

\* match target: the first arm step.
Dispatch(j) == IF call[j].target = Graph THEN GraphStage(j) ELSE VectorStage(j)

\* The operation the driver runs: the worker prefers file_path over text
\* and has an error for neither; the task runs process_text on stdin input
\* and process_file otherwise.
DriverOp(j) ==
    IF args[j].driver = "worker"
    THEN (IF IsSome(args[j].file_path) THEN "file"
          ELSE IF IsSome(args[j].text) THEN "text" ELSE "none")
    ELSE (IF IsSome(args[j].text) THEN "text" ELSE "file")

\* IngestionPipeline::new has failed: both drivers return the error
\* without handle_error (worker line 77, task line 119).
NewFailed(j, res) ==
    /\ result' = [result EXCEPT ![j] =
          IF args[j].driver = "worker"
          THEN Err(<<ErrToString(res.err)>>)
          ELSE Err(<<"Failed to create pipeline: {}", ErrToString(res.err)>>)]
    /\ pc' = [pc EXCEPT ![j] = "returned"]

\* IngestionPipeline::new lines 22-26: with CHROMA_URL set (chroma_url is
\* Some, here with the answer the collection request will get),
\* ChromaDbStore::new(url, "akashic").await? makes the vector store.
PipelineNewVectorStore(j) ==
    /\ pc[j] = "construct"
    /\ \E chroma_url \in Option(CollectionOutcomes) :
          LET res == IF IsSome(chroma_url)
                     THEN ChromaDbStoreNew(Unwrap(chroma_url))
                     ELSE OkResult
          IN IF res.ok
             THEN /\ pipeline' = [pipeline EXCEPT ![j] =
                        [NoPipeline EXCEPT !.vector_store = IsSome(chroma_url),
                                           !.response = chroma_url]]
                  /\ pc' = [pc EXCEPT ![j] = "new_graph"]
                  /\ UNCHANGED result
             ELSE /\ NewFailed(j, res)
                  /\ UNCHANGED pipeline
    /\ UNCHANGED <<docs, args, call, log, api_calls, fn>>

\* IngestionPipeline::new lines 28-38, then the driver's choice of
\* operation.  The graph store exists iff a graph_db was decoded, and its
\* construction may fail, which both drivers return without handle_error.
PipelineNew(j) ==
    /\ pc[j] = "new_graph"
    /\ \E gres \in (IF IsSome(call[j].graph_db)
                 THEN CreateGraphStoreOutcomes(Unwrap(call[j].graph_db))
                 ELSE {OkResult}) :
          IF gres.ok
          THEN /\ pipeline' = [pipeline EXCEPT ![j] =
                     [built |-> TRUE, vector_store |-> @.vector_store,
                      graph_store |-> call[j].graph_db, response |-> None]]
               /\ log' = [log EXCEPT ![j] = <<>>]
               /\ IF DriverOp(j) = "file"
                  THEN /\ call' = [call EXCEPT ![j].op = "file",
                                               ![j].file_path = Unwrap(args[j].file_path)]
                       /\ pc' = [pc EXCEPT ![j] = "pf_start"]
                       /\ UNCHANGED result
                  ELSE IF DriverOp(j) = "text"
                  THEN /\ call' = [call EXCEPT ![j].op = "text"]
                       /\ pc' = [pc EXCEPT ![j] = "pt_start"]
                       /\ UNCHANGED result
                  ELSE /\ Return(j, Err(ErrNeither))
                       /\ UNCHANGED call
          ELSE /\ NewFailed(j, gres)
               /\ pipeline' = [pipeline EXCEPT ![j] = NoPipeline]
               /\ UNCHANGED <<call, log>>
    /\ UNCHANGED <<docs, args, api_calls, fn>>

\* process_file line 48: status processing, progress 0.
PfStart(j) ==
    /\ pc[j] = "pf_start"
    /\ Checkpoint(j, "processing", 0)
    /\ pc' = [pc EXCEPT ![j] = "pf_select"]
    /\ UNCHANGED <<args, pipeline, call, result, api_calls, fn>>

\* Seeded fault: process_file records the failure itself before returning.
PfSelect_WritesFailed(j) ==
    /\ pc[j] = "pf_select"
    /\ LET found == GetExtractor(call[j].file_path)
           res == IF IsSome(found) THEN OkResult ELSE Err(ErrNoExtractor)
       IN /\ log' = [log EXCEPT ![j] = Append(@, EvSelect(res))]
          /\ IF res.ok
             THEN /\ call' = [call EXCEPT ![j].extractor = found]
                  /\ pc' = [pc EXCEPT ![j] = "pf_extract"]
                  /\ UNCHANGED <<result, docs>>
             ELSE /\ Return(j, res)
                  /\ docs' = HandleError(docs, j, ErrToString(res.err))
                  /\ UNCHANGED call
    /\ UNCHANGED <<args, pipeline, api_calls, fn>>

\* process_file lines 51-52: get_extractor(..).context("No extractor ..")?
PfSelect(j) ==
    /\ pc[j] = "pf_select"
    /\ LET found == GetExtractor(call[j].file_path)
           res == IF IsSome(found) THEN OkResult ELSE Err(ErrNoExtractor)
       IN /\ log' = [log EXCEPT ![j] = Append(@, EvSelect(res))]
          /\ IF res.ok
             THEN /\ call' = [call EXCEPT ![j].extractor = found]
                  /\ pc' = [pc EXCEPT ![j] = "pf_extract"]
                  /\ UNCHANGED result
             ELSE /\ Return(j, res)
                  /\ UNCHANGED call
    /\ UNCHANGED <<docs, args, pipeline, api_calls, fn>>

\* process_file lines 54-55: extract(..).context("Failed to extract ..")?
PfExtract(j) ==
    /\ pc[j] = "pf_extract"
    /\ \E primary \in PrimaryOutcomes(Unwrap(call[j].extractor)),
          t \in TesseractOutcomes :
          LET x == Extract(Unwrap(call[j].extractor), primary, t)
              res == Context(x.res, "Failed to extract text from file")
          IN /\ log' = [log EXCEPT ![j] = Append(@, EvExtract(res))]
             /\ call' = [call EXCEPT ![j].extraction =
                           [primary |-> primary,
                            tesseract |-> IF x.ocr_runs > 0 THEN Some(t) ELSE None,
                            ocr_runs |-> x.ocr_runs,
                            text |-> x.text]]
             /\ IF res.ok
                THEN /\ pc' = [pc EXCEPT ![j] = "pf_30"]
                     /\ UNCHANGED result
                ELSE Return(j, res)
    /\ UNCHANGED <<docs, args, pipeline, api_calls, fn>>

\* process_file line 57: progress 30, then the match on target.
Pf30(j) ==
    /\ pc[j] = "pf_30"
    /\ Checkpoint(j, "processing", 30)
    /\ pc' = [pc EXCEPT ![j] = Dispatch(j)]
    /\ UNCHANGED <<args, pipeline, call, result, api_calls, fn>>

\* Seeded fault: the Both arm has no checkpoint between its two stores.
Pf60_NoWrite(j) ==
    /\ pc[j] = "pf_60"
    /\ pc' = [pc EXCEPT ![j] = GraphStage(j)]
    /\ UNCHANGED <<docs, log, args, pipeline, call, result, api_calls, fn>>

\* process_file line 77: progress 60 between the two stores of Both.
Pf60(j) ==
    /\ pc[j] = "pf_60"
    /\ Checkpoint(j, "processing", 60)
    /\ pc' = [pc EXCEPT ![j] = GraphStage(j)]
    /\ UNCHANGED <<args, pipeline, call, result, api_calls, fn>>

\* Seeded fault: the last checkpoint before completion already shows 100.
Pf80_Writes100(j) ==
    /\ pc[j] = "pf_80"
    /\ Checkpoint(j, "processing", 100)
    /\ pc' = [pc EXCEPT ![j] = "done_100"]
    /\ UNCHANGED <<args, pipeline, call, result, api_calls, fn>>

\* process_file lines 65, 71, 82: progress 80 at the end of each arm.
Pf80(j) ==
    /\ pc[j] = "pf_80"
    /\ Checkpoint(j, "processing", 80)
    /\ pc' = [pc EXCEPT ![j] = "done_100"]
    /\ UNCHANGED <<args, pipeline, call, result, api_calls, fn>>

\* process_text line 98: progress 10, then the match on target.
PtStart(j) ==
    /\ pc[j] = "pt_start"
    /\ Checkpoint(j, "processing", 10)
    /\ pc' = [pc EXCEPT ![j] = Dispatch(j)]
    /\ UNCHANGED <<args, pipeline, call, result, api_calls, fn>>

\* process_file line 87 and process_text line 121: completed, 100, Ok(()).
Complete(j) ==
    /\ pc[j] = "done_100"
    /\ Checkpoint(j, "completed", 100)
    /\ Return(j, OkResult)
    /\ UNCHANGED <<args, pipeline, call, api_calls, fn>>

\* store.ingest(&document_id.to_string(), text, None) on the vector store
\* is entered ...
VectorCall(j) ==
    /\ pc[j] = "vec_call"
    /\ log' = [log EXCEPT ![j] = Append(@, EvCall("vector", j, None))]
    /\ pc' = [pc EXCEPT ![j] = "vec_wait"]
    /\ UNCHANGED <<docs, args, pipeline, call, result, api_calls, fn>>

\* Seeded fault: the result of the vector store is dropped.
VectorReturn_IgnoresError(j) ==
    /\ pc[j] = "vec_wait"
    /\ \E res \in VectorIngestOutcomes :
          log' = [log EXCEPT ![j] = Append(@, EvRet("vector", res))]
    /\ pc' = [pc EXCEPT ![j] = AfterVector(j)]
    /\ UNCHANGED <<docs, args, pipeline, call, result, api_calls, fn>>

\* ... and returns; `?` passes its error on unchanged.
VectorReturn(j) ==
    /\ pc[j] = "vec_wait"
    /\ \E res \in VectorIngestOutcomes :
          /\ log' = [log EXCEPT ![j] = Append(@, EvRet("vector", res))]
          /\ IF res.ok
             THEN /\ pc' = [pc EXCEPT ![j] = AfterVector(j)]
                  /\ UNCHANGED result
             ELSE Return(j, res)
    /\ UNCHANGED <<docs, args, pipeline, call, api_calls, fn>>

\* The same for the graph store.
GraphCall(j) ==
    /\ pc[j] = "gr_call"
    /\ log' = [log EXCEPT ![j] = Append(@, EvCall("graph", j, None))]
    /\ pc' = [pc EXCEPT ![j] = "gr_wait"]
    /\ UNCHANGED <<docs, args, pipeline, call, result, api_calls, fn>>

\* Seeded fault: when the graph store fails, the vector store is called
\* again to take the document back.
GraphReturn_UndoesVector(j) ==
    /\ pc[j] = "gr_wait"
    /\ \E res \in GraphIngestOutcomes(Unwrap(pipeline[j].graph_store)) :
          IF res.ok
          THEN /\ log' = [log EXCEPT ![j] = Append(@, EvRet("graph", res))]
               /\ pc' = [pc EXCEPT ![j] = AfterGraph(j)]
               /\ UNCHANGED result
          ELSE /\ log' = [log EXCEPT ![j] =
                     @ \o <<EvRet("graph", res), EvCall("vector", j, None)>>]
               /\ Return(j, res)
    /\ UNCHANGED <<docs, args, pipeline, call, api_calls, fn>>

\* Seeded fault: the result of the graph store is dropped.
GraphReturn_IgnoresError(j) ==
    /\ pc[j] = "gr_wait"
    /\ \E res \in GraphIngestOutcomes(Unwrap(pipeline[j].graph_store)) :
          log' = [log EXCEPT ![j] = Append(@, EvRet("graph", res))]
    /\ pc' = [pc EXCEPT ![j] = AfterGraph(j)]
    /\ UNCHANGED <<docs, args, pipeline, call, result, api_calls, fn>>

\* ... and returns; `?` passes its error on unchanged.
GraphReturn(j) ==
    /\ pc[j] = "gr_wait"
    /\ \E res \in GraphIngestOutcomes(Unwrap(pipeline[j].graph_store)) :
          /\ log' = [log EXCEPT ![j] = Append(@, EvRet("graph", res))]
          /\ IF res.ok
             THEN /\ pc' = [pc EXCEPT ![j] = AfterGraph(j)]
                  /\ UNCHANGED result
             ELSE Return(j, res)
    /\ UNCHANGED <<docs, args, pipeline, call, api_calls, fn>>

\* ---------------------------------------------------- drivers, after the op
\* Seeded fault: the driver reports an error whatever the result.
DriverOk_HandlesError(j) ==
    /\ pc[j] = "op_ret"
    /\ call[j].by = "driver"
    /\ result[j].ok
    /\ docs' = HandleError(docs, j, "error")
    /\ pc' = [pc EXCEPT ![j] = "returned"]
    /\ UNCHANGED <<args, pipeline, call, result, log, api_calls, fn>>

\* The operation returned Ok: worker lines 96-97, task lines 130-133.
DriverOk(j) ==
    /\ pc[j] = "op_ret"
    /\ call[j].by = "driver"
    /\ result[j].ok
    /\ pc' = [pc EXCEPT ![j] = "returned"]
    /\ UNCHANGED <<docs, args, pipeline, call, result, log, api_calls, fn>>

\* The operation returned Err(e): handle_error(id, e.to_string()), then
\* the driver returns its own error (worker lines 89-94, task lines 134-139).
DriverErr(j) ==
    /\ pc[j] = "op_ret"
    /\ call[j].by = "driver"
    /\ ~result[j].ok
    /\ docs' = HandleError(docs, j, ErrToString(result[j].err))
    /\ result' = [result EXCEPT ![j] =
          IF args[j].driver = "worker"
          THEN Err(<<ErrToString(result[j].err)>>)
          ELSE Err(<<"Ingestion failed: {}", ErrToString(result[j].err)>>)]
    /\ pc' = [pc EXCEPT ![j] = "returned"]
    /\ UNCHANGED <<args, pipeline, call, log, api_calls, fn>>

\* ------------------------------------------------ callers of the pub API
\* IngestionPipeline::new, process_file, process_text and handle_error are
\* pub: once the driver's run of a job has ended, a caller may apply them
\* to the same record, with the pipeline of that run or, if the run built
\* none, with one of its own.
ApiEnabled(j) ==
    /\ pc[j] = "returned"
    /\ pipeline[j].built
    /\ api_calls[j] < MaxApiCalls

\* The target and graph database the record names (Debug names).
RecordTarget(doc) ==
    CHOOSE t \in IngestionTarget : doc.ingestion_type = Some(DebugTarget(t))

RecordGraphDb(doc) ==
    IF IsSome(doc.graph_db)
    THEN Some(CHOOSE g \in GraphDbType : doc.graph_db = Some(DebugGraphDb(g)))
    ELSE None

\* IngestionPipeline::new by a caller, for a job whose run built none.
ApiPipelineNew(j) ==
    /\ pc[j] = "returned"
    /\ ~pipeline[j].built
    /\ \E chroma_url \in Option(CollectionOutcomes) :
          /\ IsSome(chroma_url) => ChromaDbStoreNew(Unwrap(chroma_url)).ok
          /\ pipeline' = [pipeline EXCEPT ![j] =
                [built |-> TRUE, vector_store |-> IsSome(chroma_url),
                 graph_store |-> RecordGraphDb(docs[j]), response |-> None]]
    /\ UNCHANGED <<docs, pc, args, call, result, log, api_calls, fn>>

\* process_file(id, path, target), with the job's path and target.
ApiProcessFile(j) ==
    /\ ApiEnabled(j)
    /\ DriverOp(j) = "file"
    /\ call' = [call EXCEPT ![j] =
          [NoCall EXCEPT !.op = "file", !.by = "api",
                         !.file_path = Unwrap(args[j].file_path),
                         !.target = RecordTarget(docs[j]),
                         !.graph_db = RecordGraphDb(docs[j])]]
    /\ log' = [log EXCEPT ![j] = <<>>]
    /\ pc' = [pc EXCEPT ![j] = "pf_start"]
    /\ api_calls' = [api_calls EXCEPT ![j] = @ + 1]
    /\ UNCHANGED <<docs, args, pipeline, result, fn>>

\* process_text(id, text, target), with the job's text and target.
ApiProcessText(j) ==
    /\ ApiEnabled(j)
    /\ DriverOp(j) = "text"
    /\ call' = [call EXCEPT ![j] =
          [NoCall EXCEPT !.op = "text", !.by = "api",
                         !.target = RecordTarget(docs[j]),
                         !.graph_db = RecordGraphDb(docs[j])]]
    /\ log' = [log EXCEPT ![j] = <<>>]
    /\ pc' = [pc EXCEPT ![j] = "pt_start"]
    /\ api_calls' = [api_calls EXCEPT ![j] = @ + 1]
    /\ UNCHANGED <<docs, args, pipeline, result, fn>>

\* handle_error(id, message) whatever the record's state.
ApiHandleError(j) ==
    /\ ApiEnabled(j)
    /\ docs' = HandleError(docs, j, "caller error")
    /\ api_calls' = [api_calls EXCEPT ![j] = @ + 1]
    /\ UNCHANGED <<pc, args, pipeline, call, result, log, fn>>

\* The operation returns to that caller, which does nothing by itself.
ApiReturn(j) ==
    /\ pc[j] = "op_ret"
    /\ call[j].by = "api"
    /\ pc' = [pc EXCEPT ![j] = "returned"]
    /\ UNCHANGED <<docs, args, pipeline, call, result, log, api_calls, fn>>

\* ---------------------------------------------------------- specification
\* A step of a run from pipeline construction on.
PipelineStep(j) ==
    \/ PipelineNewVectorStore(j) \/ PipelineNew(j)
    \/ PfStart(j) \/ PfSelect(j) \/ PfExtract(j) \/ Pf30(j) \/ Pf60(j) \/ Pf80(j)
    \/ PtStart(j)
    \/ VectorCall(j) \/ VectorReturn(j) \/ GraphCall(j) \/ GraphReturn(j)
    \/ Complete(j)
    \/ DriverOk(j) \/ DriverErr(j)

Step(j) ==
    \/ WorkerPerform(j)
    \/ PipelineStep(j)

Next ==
    \/ UploadFile
    \/ IngestText
    \/ TaskRun
    \/ \E j \in Jobs : Step(j)

\* The program: every record is created and run once by one driver.
Spec == Init /\ [][Next]_vars

ApiStep(j) ==
    \/ ApiPipelineNew(j)
    \/ ApiProcessFile(j)
    \/ ApiProcessText(j)
    \/ ApiHandleError(j)
    \/ ApiReturn(j)

\* The first record only: a driver creates and runs it, then callers apply
\* the pub operations to it.
NextApi ==
    \/ docs = <<>> /\ (UploadFile \/ IngestText \/ TaskRun)
    \/ Step(1)
    \/ ApiStep(1)

\* The program and callers that apply the pub operations to a finished job.
SpecApi == Init /\ [][NextApi]_vars

\* Several CLI tasks at once: their steps interleave in any order.
NextConcurrent ==
    \/ ConcurrentTaskRun
    \/ \E j \in ConcurrentJobs : PipelineStep(j)

SpecConcurrent == Init /\ [][NextConcurrent]_vars

\* ------------------------------------------ function-level specifications
\* get_extractor applied to one path.
InitGetExtractor ==
    /\ NoJobs
    /\ input \in Paths
    /\ output = None

CallGetExtractor ==
    /\ output = None
    /\ output' = Some(GetExtractorOf(input))
    /\ UNCHANGED <<input, job_vars>>

SpecGetExtractor == InitGetExtractor /\ [][CallGetExtractor]_vars

\* ChromaDbStore::ingest applied to one document.
InitChromaIngest ==
    /\ NoJobs
    /\ input \in [document_id : DocumentIds, text : Texts,
                   metadata : Option(Metadatas)]
    /\ output = None

CallChromaIngest ==
    /\ output = None
    /\ output' = Some(ChromaAddRequest(input.document_id, input.text, input.metadata))
    /\ UNCHANGED <<input, job_vars>>

SpecChromaIngest == InitChromaIngest /\ [][CallChromaIngest]_vars

\* create_graph_store applied to one discriminator and configuration.
InitCreateGraphStore ==
    /\ NoJobs
    /\ input \in [db_type : GraphDbType, config : Configs,
                   feature : BOOLEAN, connect : BOOLEAN]
    /\ output = None

CallCreateGraphStore ==
    /\ output = None
    /\ output' = Some(CreateGraphStore(input.db_type, input.config,
                                       input.feature, input.connect))
    /\ UNCHANGED <<input, job_vars>>

SpecCreateGraphStore == InitCreateGraphStore /\ [][CallCreateGraphStore]_vars

\* FalkorDbStore::ingest applied to one document.
InitFalkorIngest ==
    /\ NoJobs
    /\ input \in [document_id : FalkorIds, text : FalkorTexts,
                   metadata : FalkorMetadatas]
    /\ output = None

CallFalkorIngest ==
    /\ output = None
    /\ output' = Some(FalkorQueryValues(input.document_id, input.text,
                                        input.metadata))
    /\ UNCHANGED <<input, job_vars>>

SpecFalkorIngest == InitFalkorIngest /\ [][CallFalkorIngest]_vars

\* ------------------------------------------------------ reading the log
Terminal == {"completed", "failed"}

IsWrite(ev) == ev.k = "write"
Writes(l) == SelectSeq(l, IsWrite)
CallIdx(l, store) == {i \in DOMAIN l : l[i].k = "call" /\ l[i].s = store}
RetIdx(l, store) == {i \in DOMAIN l : l[i].k = "ret" /\ l[i].s = store}
StoreIdx(l, store) == CallIdx(l, store) \cup RetIdx(l, store)
FailIdx(l) == {i \in DOMAIN l : l[i].e # <<>>}
Pos(l, ev) == CHOOSE i \in DOMAIN l : l[i] = ev

\* The operation on job j has returned Ok and its log is still there.
RunOk(j, op) ==
    /\ call[j].op = op
    /\ pc[j] \in {"op_ret", "returned"}
    /\ result[j].ok

VectorSelected(j) == call[j].target \in {Vector, Both}
GraphSelected(j) == call[j].target \in {Graph, Both}
VectorConfigured(j) == pipeline[j].vector_store
GraphConfigured(j) == IsSome(pipeline[j].graph_store)

\* ----------------------------------------------------------------- claims

\* C1: a successful process_file run writes (processing, 0) before extractor
\* selection, (processing, 30) right after extraction, then (processing, 80)
\* after the store step for Vector or Graph, or (processing, 60) after the
\* vector step and (processing, 80) after the graph step for Both, and last
\* (completed, 100); it writes nothing else.
C1_FileCheckpointOrder ==
    \A j \in Jobs : RunOk(j, "file") =>
        LET l == log[j]
            both == call[j].target = Both
            w0 == EvWrite("processing", 0)
            w30 == EvWrite("processing", 30)
            w60 == EvWrite("processing", 60)
            w80 == EvWrite("processing", 80)
            w100 == EvWrite("completed", 100)
        IN /\ Writes(l) = IF both THEN <<w0, w30, w60, w80, w100>>
                                  ELSE <<w0, w30, w80, w100>>
           /\ l[1] = w0 /\ l[2].k = "select" /\ l[3].k = "extract" /\ l[4] = w30
           /\ l[Len(l)] = w100 /\ l[Len(l) - 1] = w80
           /\ \A i \in StoreIdx(l, "vector") :
                 /\ Pos(l, w30) < i
                 /\ i < (IF both THEN Pos(l, w60) ELSE Pos(l, w80))
           /\ \A i \in StoreIdx(l, "graph") :
                 /\ (IF both THEN Pos(l, w60) ELSE Pos(l, w30)) < i
                 /\ i < Pos(l, w80)

\* A process_file run with target Both that called both stores and returned Ok.
C1_Witness ==
    \E j \in Jobs :
        /\ RunOk(j, "file") /\ call[j].target = Both
        /\ CallIdx(log[j], "vector") # {} /\ CallIdx(log[j], "graph") # {}

\* C2: a successful process_text run selects no extractor and extracts
\* nothing, and writes the record exactly twice: (processing, 10) before any
\* store call and (completed, 100) after every store call has returned.
C2_TextCheckpoints ==
    \A j \in Jobs : RunOk(j, "text") =>
        LET l == log[j]
        IN /\ Writes(l) = <<EvWrite("processing", 10), EvWrite("completed", 100)>>
           /\ l[1] = EvWrite("processing", 10)
           /\ l[Len(l)] = EvWrite("completed", 100)
           /\ \A i \in DOMAIN l : l[i].k \notin {"select", "extract"}
           /\ \A store \in {"vector", "graph"} :
                 \A c \in CallIdx(l, store) : \E r \in RetIdx(l, store) : c < r

\* A process_text run with target Both that called both stores and returned Ok.
C2_Witness ==
    \E j \in Jobs :
        /\ RunOk(j, "text") /\ call[j].target = Both
        /\ CallIdx(log[j], "vector") # {} /\ CallIdx(log[j], "graph") # {}

\* C3: when a driver's run of a job has ended, the record's status is
\* terminal, completed or failed, never queued or processing.
C3_RunEndsTerminal ==
    \A j \in Jobs : pc[j] = "returned" => docs[j].status \in Terminal

\* C4 as claimed: no step changes a status that is completed or failed.
C4_TerminalNeverLeft ==
    [][\A j \in DOMAIN docs :
          docs[j].status \in Terminal => docs'[j].status = docs[j].status]_vars

\* C4 as amended: no step of the driver's run of a job (the one process_file
\* or process_text call, and handle_error if it returned an error) changes a
\* status that is completed or failed.
C4_TerminalNeverLeftInRun ==
    [][\A j \in DOMAIN docs :
          (docs[j].status \in Terminal /\ api_calls'[j] = 0)
             => docs'[j].status = docs[j].status]_vars

\* A job whose driver run has ended failed, before any further operation.
C4_Witness ==
    \E j \in DOMAIN docs :
        /\ pc[j] = "returned" /\ api_calls[j] = 0
        /\ docs[j].status = "failed" /\ call[j].op # "none"

\* C5 as claimed: progress is 100 exactly when status is completed.
C5_Progress100IffCompleted ==
    \A j \in DOMAIN docs :
        docs[j].progress = 100 <=> docs[j].status = "completed"

\* C5 as amended: a completed record has progress 100 whatever operations
\* were applied; a record with progress 100 is completed, or failed by a
\* handle_error applied after it had completed; and within the driver's run
\* progress is 100 exactly when status is completed.
C5_Progress100IffCompletedInRun ==
    \A j \in DOMAIN docs :
        /\ docs[j].status = "completed" => docs[j].progress = 100
        /\ docs[j].progress = 100 => docs[j].status \in Terminal
        /\ api_calls[j] = 0 =>
              (docs[j].progress = 100 <=> docs[j].status = "completed")

\* A record completed at 100 by its driver's run.
C5_Witness ==
    \E j \in DOMAIN docs :
        /\ api_calls[j] = 0 /\ pc[j] = "returned"
        /\ docs[j].status = "completed" /\ docs[j].progress = 100

\* C6: within a driver's run, no step decreases the record's progress.
C6_ProgressNeverDecreases ==
    [][\A j \in DOMAIN docs : docs'[j].progress >= docs[j].progress]_vars

\* A run with target Both that failed in the graph store after the
\* checkpoint at 60 and was reported by handle_error.
C6_Witness ==
    \E j \in DOMAIN docs :
        /\ pc[j] = "returned"
        /\ docs[j].status = "failed" /\ docs[j].progress = 60

C8_VectorFailureAborts ==
    \A j \in Jobs :
        LET l == log[j]
        IN \A i \in RetIdx(l, "vector") :
              (call[j].target = Both /\ l[i].e # <<>>) =>
                 /\ CallIdx(l, "graph") = {}
                 /\ pc[j] \in {"op_ret", "returned"}
                 /\ pc[j] = "op_ret" => result[j] = Err(l[i].e)

\* process_file with target Both and a graph store, returning after the
\* vector store failed.
C8_Witness ==
    \E j \in Jobs :
        /\ call[j].op = "file" /\ call[j].target = Both /\ GraphConfigured(j)
        /\ pc[j] = "op_ret"
        /\ \E i \in RetIdx(log[j], "vector") : log[j][i].e # <<>>

\* C9: target Vector never calls the graph store and Graph never the
\* vector store; each store is called at most once in a run; a graph call
\* starts only after the vector call has returned; and a run with target
\* Both that returns Ok has called every store the pipeline holds.
C9_StoresFollowTarget ==
    \A j \in Jobs :
        LET l == log[j]
        IN /\ call[j].target = Vector => CallIdx(l, "graph") = {}
           /\ call[j].target = Graph => CallIdx(l, "vector") = {}
           /\ Cardinality(CallIdx(l, "vector")) <= 1
           /\ Cardinality(CallIdx(l, "graph")) <= 1
           /\ \A g \in CallIdx(l, "graph") : \A v \in CallIdx(l, "vector") :
                 \E r \in RetIdx(l, "vector") : v < r /\ r < g
           /\ (call[j].target = Both /\ (RunOk(j, "file") \/ RunOk(j, "text"))) =>
                 /\ VectorConfigured(j) => CallIdx(l, "vector") # {}
                 /\ GraphConfigured(j) => CallIdx(l, "graph") # {}

\* The graph call of a Both run in flight, the vector call having returned.
C9_Witness ==
    \E j \in Jobs :
        /\ call[j].target = Both /\ pc[j] = "gr_wait"
        /\ RetIdx(log[j], "vector") # {}

\* C10: a store the pipeline does not hold is never called, and an
\* operation whose target selects such a store and in which nothing else
\* failed returns Ok with the record completed at 100.
C10_MissingStoreSkipped ==
    \A j \in Jobs : call[j].op # "none" =>
        LET l == log[j]
        IN /\ ~VectorConfigured(j) => CallIdx(l, "vector") = {}
           /\ ~GraphConfigured(j) => CallIdx(l, "graph") = {}
           /\ ( /\ pc[j] = "op_ret"
                /\ \/ VectorSelected(j) /\ ~VectorConfigured(j)
                   \/ GraphSelected(j) /\ ~GraphConfigured(j)
                /\ FailIdx(l) = {} )
              => /\ result[j].ok
                 /\ docs[j].status = "completed"
                 /\ docs[j].progress = 100

\* process_text with target Graph on a pipeline without a graph store.
C10_Witness ==
    \E j \in Jobs :
        /\ call[j].op = "text" /\ call[j].target = Graph /\ ~GraphConfigured(j)
        /\ pc[j] = "op_ret" /\ result[j].ok
        /\ docs[j].status = "completed" /\ docs[j].progress = 100
        /\ log[j] = <<EvWrite("processing", 10), EvWrite("completed", 100)>>

\* The last checkpoint an operation has written.
LastWrite(l) == Writes(l)[Len(Writes(l))]

\* C11: when extractor selection, extraction or a store's ingest fails,
\* process_file / process_text return that error at once and do not write
\* the failure: on return the record has status processing, the progress of
\* the last checkpoint and no error_message; a record is failed only once
\* the driver's handle_error has run.
C11_FailureLeavesProcessing ==
    \A j \in DOMAIN docs :
        /\ (pc[j] = "op_ret" /\ ~result[j].ok) =>
               LET l == log[j]
               IN /\ FailIdx(l) = {Len(l)}
                  /\ l[Len(l)].k \in {"select", "extract", "ret"}
                  /\ result[j] = Err(l[Len(l)].e)
                  /\ docs[j].status = "processing"
                  /\ docs[j].error_message = None
                  /\ LastWrite(l).s = "processing"
                  /\ docs[j].progress = LastWrite(l).p
        /\ docs[j].status = "failed" => pc[j] = "returned"

\* process_file has returned the error of the graph store after the
\* checkpoint at 60, and handle_error has not run yet.
C11_Witness ==
    \E j \in DOMAIN docs :
        /\ pc[j] = "op_ret" /\ ~result[j].ok /\ call[j].op = "file"
        /\ log[j][Len(log[j])].k = "ret" /\ log[j][Len(log[j])].s = "graph"
        /\ docs[j].status = "processing" /\ docs[j].progress = 60

\* C12: for a file whose extension no extractor supports (report.xyz), a
\* driver's run of process_file extracts nothing and calls no store, and
\* ends with status failed, an error_message saying that no extractor was
\* found, and the progress of the checkpoint before selection, 0.
C12_UnsupportedFileFails ==
    \A j \in DOMAIN docs :
        (call[j].op = "file" /\ call[j].by = "driver" /\ call[j].file_path = "xyz") =>
            /\ \A i \in DOMAIN log[j] : log[j][i].k \notin {"extract", "call", "ret"}
            /\ docs[j].progress = 0
            /\ pc[j] = "returned" =>
                  /\ docs[j].status = "failed"
                  /\ docs[j].error_message =
                        Some("No extractor found for this file type")
                  /\ log[j] = <<EvWrite("processing", 0), EvSelect(Err(ErrNoExtractor))>>

\* The run of process_file on report.xyz has ended.
C12_Witness ==
    \E j \in DOMAIN docs :
        /\ call[j].op = "file" /\ call[j].file_path = "xyz"
        /\ pc[j] = "returned" /\ docs[j].status = "failed"

\* The extraction event of the operation on job j.
ExtractEv(j) == log[j][CHOOSE i \in DOMAIN log[j] : log[j][i].k = "extract"]

\* The extraction of job j's PDF has returned.
PdfExtracted(j) ==
    /\ call[j].extractor = Some("PdfExtractor")
    /\ call[j].extraction.primary # ""

\* The messages of ocr_fallback's errors, which all name tesseract.
OcrMessages ==
    {ErrToString(OcrFallback(t).err) : t \in TesseractOutcomes \ {"ok"}}

\* C13: when the primary extraction of a PDF fails and the OCR fallback
\* fails too, the run ends with status failed and an error_message that
\* names the OCR tool, tesseract.
C13_OcrFailureNamesTesseract ==
    \A j \in DOMAIN docs :
        ( /\ pc[j] = "returned" /\ PdfExtracted(j)
          /\ call[j].extraction.primary = "err"
          /\ call[j].extraction.tesseract # Some("ok") )
        => /\ docs[j].status = "failed"
           /\ IsSome(docs[j].error_message)
           /\ Unwrap(docs[j].error_message) \in OcrMessages

\* C14: PdfExtractor.extract runs the OCR fallback once when the primary
\* extraction fails and not at all when it succeeds; it returns the primary
\* text when the primary extraction succeeds, tesseract's output when only
\* the primary extraction fails, and an error only when both fail.
C14_PdfOcrFallback ==
    \A j \in DOMAIN docs : PdfExtracted(j) =>
        LET x == call[j].extraction
            ev == ExtractEv(j)
        IN /\ x.primary = "ok" =>
                 /\ x.ocr_runs = 0 /\ x.tesseract = None
                 /\ x.text = Some("pdf_extract text")
                 /\ ev.e = <<>>
           /\ x.primary = "err" =>
                 /\ x.ocr_runs = 1 /\ IsSome(x.tesseract)
                 /\ x.tesseract = Some("ok") =>
                       x.text = Some("tesseract stdout") /\ ev.e = <<>>
                 /\ x.tesseract # Some("ok") =>
                       /\ x.text = None
                       /\ ev.e = <<"Failed to extract text from file">>
                                   \o OcrFallback(Unwrap(x.tesseract)).err
           /\ ev.e # <<>> <=>
                 (x.primary = "err" /\ x.tesseract # Some("ok"))

\* A PDF whose primary extraction failed and whose text came from tesseract.
C14_Witness ==
    \E j \in DOMAIN docs :
        /\ PdfExtracted(j) /\ call[j].extraction.primary = "err"
        /\ call[j].extraction.ocr_runs = 1
        /\ call[j].extraction.text = Some("tesseract stdout")
        /\ pc[j] = "pf_30"

\* The word after the last dot of a path, None when the path has no dot.
ExtensionOf(file_path) ==
    LET dots == {i \in DOMAIN file_path : file_path[i] = "."}
    IN IF dots = {} THEN None
       ELSE Some(SubSeq(file_path,
                        (CHOOSE i \in dots : \A k \in dots : k <= i) + 1,
                        Len(file_path)))

\* C15: get_extractor matches the path's extension whatever its letter
\* case: .pdf gives the PDF extractor, .md and .markdown Markdown, .txt
\* Text, .epub EPUB, .doc and .docx DOC; a path with any other extension
\* or with none gives no extractor.
C15_ExtractorByExtension ==
    IsSome(output) =>
        LET ext == ExtensionOf(input)
            e == IF IsSome(ext) THEN ToLowercase(Unwrap(ext)) ELSE <<>>
        IN Unwrap(output) =
              IF ~IsSome(ext) THEN None
              ELSE CASE e = <<"p", "d", "f">> -> Some("PdfExtractor")
                     [] e = <<"m", "d">> -> Some("MarkdownExtractor")
                     [] e = <<"m", "a", "r", "k", "d", "o", "w", "n">> ->
                           Some("MarkdownExtractor")
                     [] e = <<"t", "x", "t">> -> Some("TextExtractor")
                     [] e = <<"e", "p", "u", "b">> -> Some("EpubExtractor")
                     [] e = <<"d", "o", "c">> -> Some("DocExtractor")
                     [] e = <<"d", "o", "c", "x">> -> Some("DocExtractor")
                     [] OTHER -> None

\* get_extractor has chosen the Markdown extractor for a/.Md.
C15_Witness ==
    /\ input = <<"a", "/", ".", "M", "d">>
    /\ output = Some(Some("MarkdownExtractor"))

\* Where a text has a blank-line boundary: two newlines in a row.
BlankLineAt(text) == {i \in 1..(Len(text) - 1) : text[i] = NL /\ text[i + 1] = NL}

\* The paragraphs of a text cut at the boundaries seps, from position from.
RECURSIVE ParagraphsAt(_, _, _)
ParagraphsAt(text, seps, from) ==
    IF seps = {} THEN <<SubSeq(text, from, Len(text))>>
    ELSE LET i == CHOOSE k \in seps : \A m \in seps : k <= m
         IN <<SubSeq(text, from, i - 1)>> \o ParagraphsAt(text, seps \ {i}, i + 2)

\* C16: ChromaDbStore.ingest submits the non-empty paragraphs of the text,
\* the paragraphs being what blank-line boundaries separate, in text order:
\* N such paragraphs give exactly N chunks, chunk i (from 0) has the id
\* "{document_id}_{i}" and the text of paragraph i, and empty paragraphs
\* are dropped without taking an index.
C16_ChunksAreParagraphs ==
    IsSome(output) =>
        LET req == Unwrap(output)
            text == input.text
        IN \E seps \in SUBSET BlankLineAt(text) :
              /\ \A i \in seps : i + 1 \notin seps
              /\ LET paragraphs == ParagraphsAt(text, seps, 1)
                     nonempty == SelectSeq(paragraphs, NonBlank)
                 IN /\ \A k \in DOMAIN paragraphs : BlankLineAt(paragraphs[k]) = {}
                    /\ req.documents = nonempty
                    /\ DOMAIN req.ids = DOMAIN nonempty
                    /\ \A n \in DOMAIN nonempty :
                          req.ids[n] = input.document_id \o <<"_">> \o Decimal(n - 1)

\* "a\n\na\n\na" under id doc gives doc_0, doc_1, doc_2.
C16_Witness ==
    /\ IsSome(output)
    /\ input.document_id = <<"d", "o", "c">>
    /\ input.text = <<"a", NL, NL, "a", NL, NL, "a">>
    /\ Unwrap(output).ids =
          << <<"d", "o", "c", "_", "0">>, <<"d", "o", "c", "_", "1">>,
             <<"d", "o", "c", "_", "2">> >>
    /\ Unwrap(output).documents = << <<"a">>, <<"a">>, <<"a">> >>

\* C17: the metadata of a job record is attached verbatim: every store
\* ingest call the orchestrator makes for a job that has metadata carries
\* that metadata.
C17_MetadataAttached ==
    \A j \in DOMAIN docs : IsSome(docs[j].metadata) =>
        \A i \in DOMAIN log[j] :
            log[j][i].k = "call" => log[j][i].m = docs[j].metadata

\* The keys create_graph_store requires for a backend.
RequiredKeys(db_type) ==
    CASE db_type = Neo4j -> {"uri", "user", "password"}
      [] db_type = Falkordb -> {"uri"}
      [] db_type = Graphiti -> {}

\* The key is in the configuration with a string value, the only kind
\* as_str() reads.
Present(config, key) == config[key].kind = "string"

\* C18: create_graph_store fails and constructs no store when a key the
\* backend requires is absent (Neo4j: uri, user, password; Falkordb: uri),
\* and for Graphiti when the graphiti feature is not compiled in; when
\* every required key is present it constructs the backend the
\* discriminator names from the configured values, Falkordb's graph_name
\* being "akashic" when not configured, and returns that store.
C18_GraphStoreFactory ==
    IsSome(output) =>
        LET o == Unwrap(output)
            config == input.config
            complete == \A k \in RequiredKeys(input.db_type) : Present(config, k)
            enabled == input.db_type = Graphiti => input.feature
        IN /\ ~(complete /\ enabled) =>
                 ~o.res.ok /\ o.store = None /\ o.invoked = None
           /\ (complete /\ enabled) =>
                 /\ IsSome(o.invoked)
                 /\ Unwrap(o.invoked).kind = input.db_type
                 /\ input.db_type = Neo4j =>
                       /\ Unwrap(o.invoked).uri = config["uri"].v
                       /\ Unwrap(o.invoked).user = config["user"].v
                       /\ Unwrap(o.invoked).password = config["password"].v
                 /\ input.db_type = Falkordb =>
                       /\ Unwrap(o.invoked).url = config["uri"].v
                       /\ Unwrap(o.invoked).graph_name =
                             IF Present(config, "graph_name")
                             THEN config["graph_name"].v ELSE "akashic"
                 /\ (input.connect \/ input.db_type = Graphiti) =>
                       o.res.ok /\ o.store = o.invoked
                 /\ o.res.ok <=> IsSome(o.store)

\* A Falkordb store built from a configuration that has only the uri.
C18_Witness ==
    /\ IsSome(output)
    /\ input.db_type = Falkordb
    /\ \A k \in ConfigKeys : Present(input.config, k) <=> k = "uri"
    /\ Unwrap(output).res.ok
    /\ Unwrap(output).store =
          Some([kind |-> Falkordb, url |-> "uri", graph_name |-> "akashic"])

\* A step changes what the orchestrator owns in record j.
StatusFieldsChange(j) ==
    \/ docs'[j].status # docs[j].status
    \/ docs'[j].progress # docs[j].progress
    \/ docs'[j].error_message # docs[j].error_message

\* Job j stands at a call of update_document_status (a checkpoint of
\* process_file / process_text) or of handle_error.
AtOrchestratorWrite(j) ==
    \/ pc[j] \in {"pf_start", "pf_30", "pf_60", "pf_80", "pt_start", "done_100"}
    \/ pc[j] = "op_ret" /\ ~result[j].ok

\* After creation only the orchestrator writes status, progress and
\* error_message.
OnlyOrchestratorWrites ==
    \A j \in DOMAIN docs : StatusFieldsChange(j) => AtOrchestratorWrite(j)

\* C19 as claimed: every job record is created by its driver with status
\* queued and progress 0, before the pipeline runs on it, and after creation
\* only the orchestrator writes status, progress and error_message.
C19_CreatedQueued ==
    [][/\ \A j \in DOMAIN docs' \ DOMAIN docs :
              /\ docs'[j].status = "queued" /\ docs'[j].progress = 0
              /\ pc'[j] \in {"queued", "construct"} /\ log'[j] = <<>>
       /\ OnlyOrchestratorWrites]_vars

\* C19 as amended: every job record is created by its driver with progress
\* 0 and no error_message before the pipeline runs on it, with status
\* queued by the HTTP controllers and with status processing by the CLI
\* task; after creation only the orchestrator writes status, progress and
\* error_message.
C19_CreatedBeforeRun ==
    [][/\ \A j \in DOMAIN docs' \ DOMAIN docs :
              /\ docs'[j].status =
                    IF args'[j].driver = "task" THEN "processing" ELSE "queued"
              /\ docs'[j].progress = 0 /\ docs'[j].error_message = None
              /\ pc'[j] \in {"queued", "construct"} /\ log'[j] = <<>>
       /\ OnlyOrchestratorWrites]_vars

\* A record the CLI task has just created, the pipeline not yet built.
C19_Witness ==
    \E j \in DOMAIN docs :
        /\ args[j].driver = "task" /\ pc[j] = "construct"
        /\ docs[j].status = "processing" /\ docs[j].progress = 0

\* Job j takes a step.
Moves(j) == pc'[j] # pc[j]

\* The transitions of one record: queued to processing, processing to
\* processing, completed or failed, or no change of status; progress never
\* decreases.
OrderedTransition(j) ==
    /\ \/ docs'[j].status = docs[j].status
       \/ docs[j].status = "queued" /\ docs'[j].status = "processing"
       \/ docs[j].status = "processing" /\ docs'[j].status \in Terminal
    /\ docs'[j].progress >= docs[j].progress

\* C20: when several jobs with distinct ids run at the same time and their
\* writes and store calls interleave, a step of the operation on job i
\* touches only record i and the store calls of job i, so each record goes
\* through its own transitions in order: queued, then processing with
\* progress that never decreases, then one terminal state.
C20_JobsIsolated ==
    [][\A i \in DOMAIN docs :
          /\ Moves(i) =>
                \A k \in DOMAIN docs \ {i} :
                    /\ docs'[k] = docs[k]
                    /\ log'[k] = log[k]
                    /\ result'[k] = result[k]
          /\ docs'[i] # docs[i] => Moves(i)
          /\ OrderedTransition(i)]_vars

\* Two jobs with a vector store call in flight at the same time, one in
\* process_file after the checkpoint at 30 and one in process_text after
\* the checkpoint at 10.
C20_Witness ==
    \E i, k \in DOMAIN docs :
        /\ i # k
        /\ pc[i] = "vec_wait" /\ pc[k] = "vec_wait"
        /\ docs[i].progress = 30 /\ docs[k].progress = 10

\* Job j stands at a call of update_document_status.
AtCheckpoint(j) ==
    pc[j] \in {"pf_start", "pf_30", "pf_60", "pf_80", "pt_start", "done_100"}

\* The step is a call of handle_error on job j: by the driver after the
\* operation returned an error, or by a caller of the pub API.
IsHandleError(j) ==
    \/ pc[j] = "op_ret" /\ call[j].by = "driver" /\ ~result[j].ok
    \/ pc[j] = "returned" /\ pc'[j] = "returned" /\ api_calls'[j] # api_calls[j]

\* C21: each operation that writes the record changes its own fields only:
\* a checkpoint (update_document_status) changes status and progress and
\* nothing else; handle_error sets status failed and error_message to the
\* message given and leaves progress as it is; filename, ingestion_type,
\* graph_db and metadata never change after creation.
C21_WritesOwnFieldsOnly ==
    [][\A j \in DOMAIN docs :
          /\ docs'[j].filename = docs[j].filename
          /\ docs'[j].ingestion_type = docs[j].ingestion_type
          /\ docs'[j].graph_db = docs[j].graph_db
          /\ docs'[j].metadata = docs[j].metadata
          /\ AtCheckpoint(j) =>
                /\ docs'[j].error_message = docs[j].error_message
                /\ log'[j] = Append(log[j],
                                    EvWrite(docs'[j].status, docs'[j].progress))
          /\ IsHandleError(j) =>
                /\ docs'[j].status = "failed"
                /\ docs'[j].progress = docs[j].progress
                /\ docs'[j].error_message =
                      Some(IF call[j].by = "driver" /\ pc[j] = "op_ret"
                           THEN ErrToString(result[j].err) ELSE "caller error")
          /\ ~(AtCheckpoint(j) \/ IsHandleError(j)) => docs'[j] = docs[j]]_vars

\* A record the checkpoints have brought to (completed, 100) and a caller's
\* handle_error has then marked failed: its progress is still 100.
C21_Witness ==
    \E j \in DOMAIN docs :
        /\ docs[j].status = "failed" /\ docs[j].progress = 100
        /\ docs[j].error_message = Some("caller error")
        /\ IsSome(docs[j].filename) /\ IsSome(docs[j].ingestion_type)

\* C22: the text value FalkorDbStore.ingest inlines is the escaped form of
\* the first 1000 characters (here FalkorTextLimit) of the original text.
C22_TextTruncatedThenEscaped ==
    IsSome(output) =>
        Unwrap(output).text = EscapeQuotes(Take(input.text, FalkorTextLimit))

\* Where the string literal that starts with str ends: the position of the
\* first quote that no backslash escapes, 0 if there is none.
RECURSIVE ClosingQuote(_, _)
ClosingQuote(str, i) ==
    IF i > Len(str) THEN 0
    ELSE IF str[i] = Backslash THEN ClosingQuote(str, i + 2)
    ELSE IF str[i] = QuoteChar THEN i
    ELSE ClosingQuote(str, i + 1)

\* The value stays inside its literal: followed by the quote of the query
\* template, the literal closes at that quote and not before or after.
StaysInLiteral(value) ==
    ClosingQuote(value \o <<QuoteChar>>, 1) = Len(value) + 1

\* C23: each value FalkorDbStore.ingest inlines stays inside its own quoted
\* literal: no quote of the value ends the literal early and the value does
\* not end in a backslash that escapes the closing quote.
C23_ValuesStayInLiterals ==
    IsSome(output) =>
        /\ StaysInLiteral(Unwrap(output).id)
        /\ StaysInLiteral(Unwrap(output).text)
        /\ StaysInLiteral(Unwrap(output).metadata)

\* The store is one the target of job j selects and its pipeline holds.
StoreInUse(j, store) ==
    IF store = "vector" THEN VectorSelected(j) /\ VectorConfigured(j)
    ELSE GraphSelected(j) /\ GraphConfigured(j)

\* C24: a record is completed only if, in that run, every store the target
\* selects and the pipeline holds got exactly one ingest call with the
\* job's document id and that call returned Ok before completed was
\* written; completed is never written while a store call is pending or
\* after one has failed.
C24_CompletedOnlyAfterStores ==
    \A j \in DOMAIN docs : docs[j].status = "completed" =>
        LET l == log[j]
            done == Pos(l, EvWrite("completed", 100))
        IN /\ l[Len(l)] = EvWrite("completed", 100)
           /\ \A i \in DOMAIN l : l[i].k = "ret" => l[i].e = <<>>
           /\ \A store \in {"vector", "graph"} :
                 /\ Cardinality(CallIdx(l, store)) = Cardinality(RetIdx(l, store))
                 /\ StoreInUse(j, store) =>
                       \E c \in CallIdx(l, store), r \in RetIdx(l, store) :
                          /\ CallIdx(l, store) = {c} /\ RetIdx(l, store) = {r}
                          /\ l[c].d = j
                          /\ c < r /\ r < done
                          /\ l[r].e = <<>>

\* A process_file run with target Both and both stores, completed.
C24_Witness ==
    \E j \in DOMAIN docs :
        /\ docs[j].status = "completed" /\ call[j].op = "file"
        /\ call[j].target = Both
        /\ StoreInUse(j, "vector") /\ StoreInUse(j, "graph")

\* The vector store holds the document of the run: an ingest call on it
\* has returned Ok and no later call on it has followed.
VectorHolds(l) ==
    \E r \in RetIdx(l, "vector") :
        /\ l[r].e = <<>>
        /\ \A i \in StoreIdx(l, "vector") : i <= r

\* The run of job j had target Both and both stores, its vector ingest
\* returned Ok and its graph ingest failed.
GraphFailedAfterVector(j) ==
    /\ call[j].target = Both /\ VectorConfigured(j) /\ GraphConfigured(j)
    /\ \E r \in RetIdx(log[j], "vector") : log[j][r].e = <<>>
    /\ \E r \in RetIdx(log[j], "graph") : log[j][r].e # <<>>

\* C25: with target Both and both stores, when the vector ingest succeeds
\* and the graph ingest then fails, nothing takes the vector write back:
\* the operation returns at the failure, the run ends failed with the
\* vector store holding the document, and progress stays at the checkpoint
\* before the graph call, 60 for process_file and 10 for process_text.
C25_NoCompensation ==
    \A j \in DOMAIN docs : GraphFailedAfterVector(j) =>
        LET l == log[j]
        IN /\ l[Len(l)].k = "ret" /\ l[Len(l)].s = "graph" /\ l[Len(l)].e # <<>>
           /\ Cardinality(CallIdx(l, "vector")) = 1
           /\ VectorHolds(l)
           /\ docs[j].progress = IF call[j].op = "file" THEN 60 ELSE 10
           /\ pc[j] \in {"op_ret", "returned"}
           /\ pc[j] = "returned" =>
                 /\ docs[j].status = "failed"
                 /\ docs[j].error_message = Some(ErrToString(l[Len(l)].e))

\* A process_text run whose graph store failed after the vector store had
\* taken the document, ended failed at progress 10.
C25_Witness ==
    \E j \in DOMAIN docs :
        /\ GraphFailedAfterVector(j) /\ call[j].op = "text"
        /\ pc[j] = "returned" /\ docs[j].status = "failed"
        /\ docs[j].progress = 10 /\ VectorHolds(log[j])

\* C26: the target and graph_db a controller encodes into the queued worker
\* arguments decode in IngestWorker::perform (lines 36-40) to the target
\* and the graph backend the request selected, the ones the controller
\* wrote to the record.
C26_WorkerArgsRoundTrip ==
    \A j \in DOMAIN docs : args[j].driver = "worker" =>
        /\ ParseTarget(args[j].target) = Some(RecordTarget(docs[j]))
        /\ FieldGraphDb(args[j].graph_db) = RecordGraphDb(docs[j])

\* The errors ChromaDbStore::ingest returns.
VectorBackendErrors == {res.err : res \in VectorIngestOutcomes \ {OkResult}}

\* C27: constructing the pipeline with a vector-store URL never fails
\* because of the vector backend: whatever answer the collection request of
\* ChromaDbStore::new got, construction goes on with a vector store and no
\* error, and a construction that fails has failed to create the graph
\* store; a failing vector backend shows only as the return of the run's
\* first vector ingest call, after the record was written processing.
C27_VectorBackendDetectedAtIngest ==
    \A j \in DOMAIN docs :
        /\ pc[j] = "new_graph" =>
              /\ result[j].ok
              /\ pipeline[j].vector_store = IsSome(pipeline[j].response)
        /\ \A i \in DOMAIN log[j] :
              (log[j][i].k = "ret" /\ log[j][i].e \in VectorBackendErrors) =>
                 /\ log[j][i].s = "vector"
                 /\ CallIdx(log[j], "vector") = {i - 1}
                 /\ \E w \in 1..(i - 1) :
                       IsWrite(log[j][w]) /\ log[j][w].s = "processing"
        /\ (call[j].by = "driver" /\ ~result[j].ok /\ ~pipeline[j].built) =>
              /\ IsSome(call[j].graph_db)
              /\ \E gres \in CreateGraphStoreOutcomes(Unwrap(call[j].graph_db)) :
                    /\ ~gres.ok
                    /\ result[j].err[Len(result[j].err)] = ErrToString(gres.err)

\* ChromaDbStore::new got no response at all to its collection request and
\* returned a vector store.
C27_Witness ==
    \E j \in DOMAIN docs :
        /\ pc[j] = "new_graph"
        /\ pipeline[j].response = Some("no response")
        /\ pipeline[j].vector_store

====
